---- MODULE Spec2Model ----
(***************************************************************************)
(* Model of website/src/registry/components/_write_files.py: a one-shot    *)
(* script that loads _files_data.json, base64-decodes every entry, writes  *)
(* each decoded text next to itself, prints a line count per file, then    *)
(* removes the manifest and its own file.                                  *)
(*                                                                         *)
(* Text is a sequence of code points, file content a sequence of bytes,    *)
(* a base64 string a sequence of one-character strings, a path a sequence  *)
(* of components whose first component "/" is the root.                    *)
(***************************************************************************)
EXTENDS Integers, Sequences, FiniteSets, TLC

\* Largest number of "key": value members in the manifest's JSON object.
MaxEntries == 2

----------------------------------------------------------------------------
(* base64.b64decode(s) with validate=False, i.e. binascii.a2b_base64 in its *)
(* non-strict mode.                                                         *)

B64Chars ==
  << "A","B","C","D","E","F","G","H","I","J","K","L","M",
     "N","O","P","Q","R","S","T","U","V","W","X","Y","Z",
     "a","b","c","d","e","f","g","h","i","j","k","l","m",
     "n","o","p","q","r","s","t","u","v","w","x","y","z",
     "0","1","2","3","4","5","6","7","8","9","+","/" >>

\* table_a2b_base64: the sextet of a character, 64 for a character outside
\* the alphabet.
B64Index(c) ==
  IF \E i \in 1..Len(B64Chars) : B64Chars[i] = c
    THEN (CHOOSE i \in 1..Len(B64Chars) : B64Chars[i] = c) - 1
    ELSE Len(B64Chars)

RECURSIVE A2bLoop(_, _, _, _, _, _)
A2bLoop(s, i, quad, left, pads, bin) ==
  IF i > Len(s)
    THEN IF quad # 0
           THEN [ok |-> FALSE, bytes |-> <<>>]     \* binascii.Error
           ELSE [ok |-> TRUE, bytes |-> bin]
    ELSE
      LET c == s[i]
          v == B64Index(c)
      IN
      IF c = "="
        THEN IF quad >= 2 /\ quad + pads + 1 >= 4
               THEN [ok |-> TRUE, bytes |-> bin]   \* the rest is not parsed
               ELSE A2bLoop(s, i + 1, quad, left,
                            IF quad >= 2 THEN pads + 1 ELSE pads, bin)
      ELSE IF v >= 64
        THEN A2bLoop(s, i + 1, quad, left, pads, bin)  \* discarded
      ELSE
        CASE quad = 0 -> A2bLoop(s, i + 1, 1, v, 0, bin)
          [] quad = 1 -> A2bLoop(s, i + 1, 2, v % 16, 0,
                                 Append(bin, left * 4 + (v \div 16)))
          [] quad = 2 -> A2bLoop(s, i + 1, 3, v % 4, 0,
                                 Append(bin, left * 16 + (v \div 4)))
          [] OTHER    -> A2bLoop(s, i + 1, 0, 0, 0,
                                 Append(bin, left * 64 + v))

\* base64.b64decode(b64content): a value that is not a string is a TypeError.
B64Decode(val) ==
  IF val.t # "str"
    THEN [ok |-> FALSE, bytes |-> <<>>]
    ELSE A2bLoop(val.s, 1, 0, 0, 0, <<>>)

----------------------------------------------------------------------------
(* bytes.decode('utf-8'), strict, and the text-mode write's encoding.       *)

IsCont(b, i, lo, hi) == i <= Len(b) /\ b[i] >= lo /\ b[i] <= hi

RECURSIVE Utf8From(_, _, _)
Utf8From(b, i, acc) ==
  IF i > Len(b) THEN [ok |-> TRUE, text |-> acc]
  ELSE
    LET c   == b[i]
        bad == [ok |-> FALSE, text |-> <<>>]       \* UnicodeDecodeError
    IN
    IF c < 128 THEN Utf8From(b, i + 1, Append(acc, c))
    ELSE IF c >= 194 /\ c <= 223 THEN
      IF IsCont(b, i + 1, 128, 191)
        THEN Utf8From(b, i + 2, Append(acc, (c - 192) * 64 + (b[i+1] - 128)))
        ELSE bad
    ELSE IF c >= 224 /\ c <= 239 THEN
      IF /\ IsCont(b, i + 1, IF c = 224 THEN 160 ELSE 128,
                             IF c = 237 THEN 159 ELSE 191)
         /\ IsCont(b, i + 2, 128, 191)
        THEN Utf8From(b, i + 3,
               Append(acc, (c - 224) * 4096 + (b[i+1] - 128) * 64
                           + (b[i+2] - 128)))
        ELSE bad
    ELSE IF c >= 240 /\ c <= 244 THEN
      IF /\ IsCont(b, i + 1, IF c = 240 THEN 144 ELSE 128,
                             IF c = 244 THEN 143 ELSE 191)
         /\ IsCont(b, i + 2, 128, 191)
         /\ IsCont(b, i + 3, 128, 191)
        THEN Utf8From(b, i + 4,
               Append(acc, (c - 240) * 262144 + (b[i+1] - 128) * 4096
                           + (b[i+2] - 128) * 64 + (b[i+3] - 128)))
        ELSE bad
    ELSE bad

Utf8Decode(b) == Utf8From(b, 1, <<>>)

EncodePoint(cp) ==
  IF cp < 128 THEN <<cp>>
  ELSE IF cp < 2048 THEN <<192 + (cp \div 64), 128 + (cp % 64)>>
  ELSE IF cp < 65536
    THEN <<224 + (cp \div 4096), 128 + ((cp \div 64) % 64), 128 + (cp % 64)>>
  ELSE <<240 + (cp \div 262144), 128 + ((cp \div 4096) % 64),
         128 + ((cp \div 64) % 64), 128 + (cp % 64)>>

RECURSIVE Utf8Encode(_)
Utf8Encode(text) ==
  IF text = <<>> THEN <<>>
  ELSE EncodePoint(Head(text)) \o Utf8Encode(Tail(text))

\* base64.b64decode(b64content).decode('utf-8')
DecodeContent(val) ==
  LET raw == B64Decode(val) IN
  IF ~raw.ok THEN [ok |-> FALSE, text |-> <<>>] ELSE Utf8Decode(raw.bytes)

\* Fault: the number of lines a reader sees, len(content.splitlines()).
CountLines(text) ==
  Cardinality({i \in 1..Len(text) : text[i] = 10})
    + (IF text # <<>> /\ text[Len(text)] # 10 THEN 1 ELSE 0)

\* content.count(chr(10))
RECURSIVE CountNewlines(_)
CountNewlines(text) ==
  IF text = <<>> THEN 0
  ELSE (IF Head(text) = 10 THEN 1 ELSE 0) + CountNewlines(Tail(text))

----------------------------------------------------------------------------
(* Paths and the filesystem.                                                *)

\* base = os.path.dirname(os.path.abspath(__file__))
Base == <<"/", "base">>

IsAbs(p) == Len(p) > 0 /\ p[1] = "/"

\* os.path.join(base, fname): an absolute fname discards base.
Join(b, fname) == IF IsAbs(fname) THEN fname ELSE b \o fname

\* The file a path string names once the system resolves it: "." components
\* and repeated separators name nothing.
RECURSIVE Resolve(_)
Resolve(p) ==
  IF p = <<>> THEN <<>>
  ELSE LET r == Resolve(SubSeq(p, 1, Len(p) - 1))
           c == p[Len(p)]
       IN IF c = "." \/ (c = "/" /\ Len(p) > 1) THEN r ELSE Append(r, c)

ManifestPath == Resolve(Join(Base, <<"_files_data.json">>))
ScriptPath   == Resolve(Join(Base, <<"_write_files.py">>))
OtherPath    == Resolve(Join(Base, <<"other.txt">>))

\* The directories that exist; the script creates none.
Dirs == {<<"/">>, Base}

Parent(p) == SubSeq(p, 1, Len(p) - 1)

\* Manifest keys (JSON member names) and values the inputs are drawn from.
KeyA        == <<"a.txt">>
KeyDotA     == <<".", "a.txt">>
KeyB        == <<"b.txt">>
KeyManifest == <<"_files_data.json">>
KeyScript   == <<"_write_files.py">>
KeySub      == <<"sub", "c.txt">>
KeyAbs      == <<"/", "abs.txt">>
Keys == {KeyA, KeyDotA, KeyB, KeyManifest, KeyScript, KeySub, KeyAbs}

Str(s) == [t |-> "str", s |-> s]
ValX        == Str(<<"e","A","=","=">>)                  \* "x"
ValABC      == Str(<<"Y","Q","p","i","C","m","M","=">>)  \* "a\nb\nc"
ValABCNl    == Str(<<"Y","Q","p","i","C","m","M","K">>)  \* "a\nb\nc\n"
ValEAcute   == Str(<<"w","6","k","=">>)                  \* U+00E9
ValBang     == Str(<<"e","!","A","=","=">>)              \* '!' is not base64
ValShort    == Str(<<"e","A">>)                          \* padding missing
ValFF       == Str(<<"/","w","=","=">>)                  \* byte 0xFF
ValNumber   == [t |-> "num", s |-> <<>>]                 \* a JSON number

Member(k, v) == [key |-> k, val |-> v]
Entries ==
  { Member(KeyA, ValX), Member(KeyDotA, ValABC), Member(KeyB, ValABCNl),
    Member(KeyA, ValEAcute), Member(KeyB, ValBang), Member(KeyA, ValShort),
    Member(KeyB, ValFF), Member(KeyB, ValNumber), Member(KeyManifest, ValX),
    Member(KeyScript, ValX), Member(KeySub, ValX), Member(KeyAbs, ValX) }

\* Every file path the model's filesystem tracks.
FilePaths ==
  {Resolve(Join(Base, k)) : k \in Keys} \cup {Resolve(Base \o k) : k \in Keys}
    \cup {ManifestPath, ScriptPath, OtherPath}

\* A file: absent, this script, a JSON document (the manifest as written by
\* its producer) or text written by a run.
NoDoc  == [t |-> "none", pairs |-> <<>>]
Absent == [kind |-> "absent", doc |-> NoDoc, bytes |-> <<>>]
ScriptFile  == [kind |-> "script", doc |-> NoDoc, bytes |-> <<>>]
JsonFile(d) == [kind |-> "json", doc |-> d, bytes |-> <<>>]
TextFile(b) == [kind |-> "text", doc |-> NoDoc, bytes |-> b]

Exists(f, p) == f[p].kind # "absent"

\* The JSON texts the manifest file may hold: not JSON at all, JSON that is
\* not an object, or an object of up to MaxEntries members.
Docs ==
  {[t |-> "invalid", pairs |-> <<>>], [t |-> "array", pairs |-> <<>>]}
    \cup {[t |-> "object", pairs |-> m] :
            m \in UNION {[1..n -> Entries] : n \in 0..MaxEntries}}

\* dict built by json.loads from an object's members: a repeated name keeps
\* its first position and takes the last value.
RECURSIVE DictOf(_, _)
DictOf(pairs, d) ==
  IF pairs = <<>> THEN d
  ELSE LET p == Head(pairs) IN
       DictOf(Tail(pairs),
              IF \E j \in 1..Len(d) : d[j].key = p.key
                THEN [j \in 1..Len(d) |-> IF d[j].key = p.key THEN p ELSE d[j]]
                ELSE Append(d, p))

\* Fault: a manifest that does not parse is taken for an empty mapping.
JsonLoadsLenient(file) ==
  IF file.kind # "json" \/ file.doc.t = "invalid"
    THEN [ok |-> TRUE, value |-> [t |-> "object", pairs |-> <<>>]]
    ELSE [ok |-> TRUE,
          value |-> [t |-> file.doc.t, pairs |-> DictOf(file.doc.pairs, <<>>)]]

\* json.loads(open(...).read()): ok is FALSE for a JSONDecodeError. Text
\* written by a run ("x", "a\nb\nc", ...) or an emptied file is not JSON.
JsonLoads(file) ==
  IF file.kind # "json" \/ file.doc.t = "invalid"
    THEN [ok |-> FALSE, value |-> NoDoc]
    ELSE [ok |-> TRUE,
          value |-> [t |-> file.doc.t, pairs |-> DictOf(file.doc.pairs, <<>>)]]

\* open(filepath, 'w') needs the parent directory and a non-directory target.
CanOpen(p) == Parent(p) \in Dirs /\ p \notin Dirs

\* Fault: the file is opened with mode 'a'.
WriteTextAppend(f, p, text) ==
  [f EXCEPT ![p] = TextFile(f[p].bytes \o Utf8Encode(text))]

\* with open(filepath, 'w') as f: f.write(content)
WriteText(f, p, text) == [f EXCEPT ![p] = TextFile(Utf8Encode(text))]

\* Fault: the file of a failed write is unlinked.
TruncateUnlinks(f, p) == [f EXCEPT ![p] = Absent]

\* open(filepath, 'w') succeeded and the write did not: the file is emptied.
Truncate(f, p) == [f EXCEPT ![p] = TextFile(<<>>)]

\* os.remove(path)
Remove(f, p) == [f EXCEPT ![p] = Absent]

----------------------------------------------------------------------------
(* The run, one action per statement of the script.                         *)

VARIABLES
  fs,         \* the filesystem: FilePaths -> file
  pc,         \* "idle", "load", "loop", "print", "rm_script", "print_done",
              \* "done", "failed", "nolaunch"
  files_b64,  \* the value json.loads returned
  idx,        \* entries of files_b64 the for loop has completed
  content,    \* the loop's content variable
  out,        \* standard output, a sequence of lines
  err,        \* the exception that ended the run, "none" if none
  fs0,        \* history: the filesystem when this invocation began
  written,    \* history: the writes this run completed, in order
  trace,      \* history: the steps this run completed, in order
  prev        \* history: how the previous invocation ended, "none" if none

vars == <<fs, pc, files_b64, idx, content, out, err, fs0, written, trace, prev>>

\* Fault: the line names filepath instead of fname.
WrittenLinePath(fname, lines) ==
  [kind |-> "Written", fname |-> Join(Base, fname), lines |-> lines]

WrittenLine(fname, lines) == [kind |-> "Written", fname |-> fname, lines |-> lines]
CleanupLine == [kind |-> "Cleanup done", fname |-> <<>>, lines |-> 0]

\* What is on disk before the first invocation: the script, possibly a
\* manifest, an a.txt from an earlier generation and an unrelated file.
InitFs(manifest) ==
  [p \in FilePaths |->
     IF p = ManifestPath THEN manifest
     ELSE IF p = ScriptPath THEN ScriptFile
     ELSE IF p = Resolve(Join(Base, KeyA)) THEN TextFile(<<111, 108, 100, 10>>)
     ELSE IF p = OtherPath THEN TextFile(<<107, 101, 101, 112>>)
     ELSE Absent]

Init ==
  /\ \E m \in {Absent} \cup {JsonFile(d) : d \in Docs} : fs = InitFs(m)
  /\ pc = "idle"
  /\ files_b64 = NoDoc
  /\ idx = 0
  /\ content = <<>>
  /\ out = <<>>
  /\ err = "none"
  /\ fs0 = fs
  /\ written = <<>>
  /\ trace = <<>>
  /\ prev = "none"

Ended == pc \in {"done", "failed", "nolaunch"}

\* A new process: nothing of the previous run's memory or output remains.
Fresh ==
  /\ files_b64' = NoDoc
  /\ idx' = 0
  /\ content' = <<>>
  /\ out' = <<>>
  /\ written' = <<>>
  /\ trace' = <<>>
  /\ fs0' = fs
  /\ prev' = IF pc = "idle" THEN "none" ELSE pc
  /\ UNCHANGED fs

\* The run ends with an uncaught exception.
Fail(e) ==
  /\ pc' = "failed"
  /\ err' = e

\* python _write_files.py: the interpreter opens the script file and runs
\* lines 1-3.
Invoke ==
  /\ pc = "idle" \/ Ended
  /\ fs[ScriptPath].kind = "script"
  /\ Fresh
  /\ pc' = "load"
  /\ err' = "none"

\* The script file is gone, or no longer holds this program (a failed run
\* wrote a manifest entry over it): no run of this script starts.
LaunchFail ==
  /\ pc = "idle" \/ Ended
  /\ fs[ScriptPath].kind # "script"
  /\ Fresh
  /\ pc' = "nolaunch"
  /\ err' = IF Exists(fs, ScriptPath) THEN "NotThisScript" ELSE "CannotOpenScript"

\* Fault: a missing manifest is taken for an empty one and the run goes on.
ManifestNotFoundAsEmpty ==
  /\ pc = "load"
  /\ ~Exists(fs, ManifestPath)
  /\ files_b64' = [t |-> "object", pairs |-> <<>>]
  /\ pc' = "loop"
  /\ UNCHANGED <<fs, idx, content, out, err, fs0, written, trace, prev>>

\* line 6, open(...) raises: the manifest file is absent.
ManifestNotFound ==
  /\ pc = "load"
  /\ ~Exists(fs, ManifestPath)
  /\ Fail("FileNotFoundError")
  /\ UNCHANGED <<fs, files_b64, idx, content, out, fs0, written, trace, prev>>

\* line 6, json.loads raises.
ManifestParseError ==
  /\ pc = "load"
  /\ Exists(fs, ManifestPath)
  /\ ~JsonLoads(fs[ManifestPath]).ok
  /\ Fail("JSONDecodeError")
  /\ UNCHANGED <<fs, files_b64, idx, content, out, fs0, written, trace, prev>>

\* line 6
LoadManifest ==
  /\ pc = "load"
  /\ Exists(fs, ManifestPath)
  /\ JsonLoads(fs[ManifestPath]).ok
  /\ files_b64' = JsonLoads(fs[ManifestPath]).value
  /\ pc' = "loop"
  /\ trace' = Append(trace, "load")
  /\ UNCHANGED <<fs, idx, content, out, err, fs0, written, prev>>

\* line 8, files_b64.items() on a value that is not a dict.
ItemsFail ==
  /\ pc = "loop"
  /\ files_b64.t # "object"
  /\ Fail("AttributeError")
  /\ UNCHANGED <<fs, files_b64, idx, content, out, fs0, written, trace, prev>>

InLoop ==
  /\ pc = "loop"
  /\ files_b64.t = "object"
  /\ idx < Len(files_b64.pairs)

CurKey  == files_b64.pairs[idx + 1].key
CurVal  == files_b64.pairs[idx + 1].val
CurPath == Resolve(Join(Base, CurKey))

\* The exception line 9 raises for a value, "none" if it raises none.
DecodeError(val) ==
  IF val.t # "str" THEN "TypeError"
  ELSE IF ~B64Decode(val).ok THEN "binascii.Error"
  ELSE IF ~Utf8Decode(B64Decode(val).bytes).ok THEN "UnicodeDecodeError"
  ELSE "none"

\* Fault: the manifest is removed in a finally clause when decoding fails.
DecodeFailCleansUp ==
  /\ InLoop
  /\ DecodeError(CurVal) # "none"
  /\ Fail(DecodeError(CurVal))
  /\ fs' = Remove(fs, ManifestPath)
  /\ UNCHANGED <<files_b64, idx, content, out, fs0, written, trace, prev>>

\* line 9 raises.
DecodeFail ==
  /\ InLoop
  /\ DecodeError(CurVal) # "none"
  /\ Fail(DecodeError(CurVal))
  /\ UNCHANGED <<fs, files_b64, idx, content, out, fs0, written, trace, prev>>

\* line 11, open(filepath, 'w') raises: the parent directory is missing, the
\* target is a directory, or the system refuses (permissions).
OpenFail ==
  /\ InLoop
  /\ DecodeError(CurVal) = "none"
  /\ \/ ~CanOpen(CurPath) /\ Fail("FileNotFoundError")
     \/ CanOpen(CurPath) /\ Fail("PermissionError")
  /\ content' = DecodeContent(CurVal).text
  /\ UNCHANGED <<fs, files_b64, idx, out, fs0, written, trace, prev>>

\* lines 11-12, the file is opened (and so emptied) and the write or the
\* close raises (disk full).
WriteFail ==
  /\ InLoop
  /\ DecodeError(CurVal) = "none"
  /\ CanOpen(CurPath)
  /\ fs' = Truncate(fs, CurPath)
  /\ content' = DecodeContent(CurVal).text
  /\ Fail("OSError")
  /\ UNCHANGED <<files_b64, idx, out, fs0, written, trace, prev>>

\* lines 9-12
WriteFile ==
  /\ InLoop
  /\ DecodeError(CurVal) = "none"
  /\ CanOpen(CurPath)
  /\ content' = DecodeContent(CurVal).text
  /\ fs' = WriteText(fs, CurPath, content')
  /\ written' = Append(written, [key |-> CurKey, path |-> CurPath, text |-> content'])
  /\ trace' = Append(trace, "write")
  /\ pc' = "print"
  /\ UNCHANGED <<files_b64, idx, out, err, fs0, prev>>

\* lines 13-14
PrintWritten ==
  /\ pc = "print"
  /\ out' = Append(out, WrittenLine(CurKey, CountNewlines(content)))
  /\ idx' = idx + 1
  /\ pc' = "loop"
  /\ UNCHANGED <<fs, files_b64, content, err, fs0, written, trace, prev>>

LoopOver ==
  /\ pc = "loop"
  /\ files_b64.t = "object"
  /\ idx = Len(files_b64.pairs)

\* Fault: the cleanup is not held back until the loop is over.
RemoveManifestEarly ==
  /\ pc = "loop"
  /\ files_b64.t = "object"
  /\ Exists(fs, ManifestPath)
  /\ fs' = Remove(fs, ManifestPath)
  /\ trace' = Append(trace, "rm_manifest")
  /\ pc' = "rm_script"
  /\ UNCHANGED <<files_b64, idx, content, out, err, fs0, written, prev>>

\* line 17
RemoveManifest ==
  /\ LoopOver
  /\ Exists(fs, ManifestPath)
  /\ fs' = Remove(fs, ManifestPath)
  /\ trace' = Append(trace, "rm_manifest")
  /\ pc' = "rm_script"
  /\ UNCHANGED <<files_b64, idx, content, out, err, fs0, written, prev>>

\* Fault: lines 17 and 18 are swapped, the script is removed first.
RemoveManifestFailAfterScript ==
  /\ LoopOver
  /\ fs' = Remove(fs, ScriptPath)
  /\ Fail(IF Exists(fs, ManifestPath) THEN "PermissionError" ELSE "FileNotFoundError")
  /\ UNCHANGED <<files_b64, idx, content, out, fs0, written, trace, prev>>

\* line 17 raises: the system refuses the removal.
RemoveManifestFail ==
  /\ LoopOver
  /\ Fail(IF Exists(fs, ManifestPath) THEN "PermissionError" ELSE "FileNotFoundError")
  /\ UNCHANGED <<fs, files_b64, idx, content, out, fs0, written, trace, prev>>

\* Fault: line 18 is missing.
RemoveScriptSkipped ==
  /\ pc = "rm_script"
  /\ trace' = Append(trace, "rm_script")
  /\ pc' = "print_done"
  /\ UNCHANGED <<fs, files_b64, idx, content, out, err, fs0, written, prev>>

\* line 18
RemoveScript ==
  /\ pc = "rm_script"
  /\ Exists(fs, ScriptPath)
  /\ fs' = Remove(fs, ScriptPath)
  /\ trace' = Append(trace, "rm_script")
  /\ pc' = "print_done"
  /\ UNCHANGED <<files_b64, idx, content, out, err, fs0, written, prev>>

\* line 18 raises.
RemoveScriptFail ==
  /\ pc = "rm_script"
  /\ Fail(IF Exists(fs, ScriptPath) THEN "PermissionError" ELSE "FileNotFoundError")
  /\ UNCHANGED <<fs, files_b64, idx, content, out, fs0, written, trace, prev>>

\* line 19
CleanupDone ==
  /\ pc = "print_done"
  /\ out' = Append(out, CleanupLine)
  /\ trace' = Append(trace, "print_done")
  /\ pc' = "done"
  /\ UNCHANGED <<fs, files_b64, idx, content, err, fs0, written, prev>>

Next ==
  \/ Invoke
  \/ LaunchFail
  \/ ManifestNotFound
  \/ ManifestParseError
  \/ LoadManifest
  \/ ItemsFail
  \/ DecodeFail
  \/ OpenFail
  \/ WriteFail
  \/ WriteFile
  \/ PrintWritten
  \/ RemoveManifest
  \/ RemoveManifestFail
  \/ RemoveScript
  \/ RemoveScriptFail
  \/ CleanupDone

Spec == Init /\ [][Next]_vars

----------------------------------------------------------------------------
(* Vocabulary of the properties.                                            *)

Range(q) == {q[i] : i \in DOMAIN q}

Pairs == files_b64.pairs

\* Where the code puts key k, and where <base-dir>/k is.
DestOf(k)    == Resolve(Join(Base, k))
UnderBase(k) == Resolve(Base \o k)

\* The manifest, as a mapping, that the invocation found on disk.
StartPairs ==
  IF fs0[ManifestPath].kind = "json" /\ fs0[ManifestPath].doc.t = "object"
    THEN DictOf(fs0[ManifestPath].doc.pairs, <<>>)
    ELSE <<>>

\* RFC 4648 base64: alphabet characters in groups of four, "=" only as the
\* last one or two characters.
StrictB64(val) ==
  /\ val.t = "str"
  /\ Len(val.s) % 4 = 0
  /\ \A i \in 1..Len(val.s) :
       \/ val.s[i] \in Range(B64Chars)
       \/ /\ val.s[i] = "="
          /\ i >= Len(val.s) - 1
          /\ val.s[Len(val.s)] = "="

\* Valid base64 of UTF-8 text.
ValidValue(val) == StrictB64(val) /\ Utf8Decode(B64Decode(val).bytes).ok

ValidManifest ==
  files_b64.t = "object" /\ \A i \in 1..Len(Pairs) : ValidValue(Pairs[i].val)

\* The file that holds exactly the bytes a value encodes.
Expect(val) == TextFile(B64Decode(val).bytes)

\* The number of line feeds of a text, counted without the code's count.
NlCount(text) == Cardinality({i \in 1..Len(text) : text[i] = 10})

\* The last of the first n completed writes that went to path p, 0 if none.
LastWrite(p, n) ==
  IF \E j \in 1..n : written[j].path = p
    THEN CHOOSE j \in 1..n :
           written[j].path = p /\ \A k \in (j + 1)..n : written[k].path # p
    ELSE 0

\* What path p holds once the completed writes, and nothing else, have
\* happened since the invocation began.
AfterWrites(p) ==
  LET j == LastWrite(p, Len(written)) IN
  IF j = 0 THEN fs0[p] ELSE TextFile(Utf8Encode(written[j].text))

\* The run failed while processing entry idx + 1 of the manifest.
EntryFailed ==
  pc = "failed" /\ files_b64.t = "object" /\ idx < Len(Pairs)

\* The run failed in a cleanup step.
CleanupFailed ==
  pc = "failed" /\ files_b64.t = "object" /\ idx = Len(Pairs)

OneWritePerKey ==
  /\ Len(written) = Len(Pairs)
  /\ \A i \in 1..Len(Pairs) : written[i].key = Pairs[i].key

----------------------------------------------------------------------------
\* C1 (as stated): after a successful run on a valid manifest every key k,
\* whatever it names, has a file at <base-dir>/k holding the bytes its value
\* encodes, and each key produced one write.
C1_Original ==
  (pc = "done" /\ ValidManifest) =>
     /\ OneWritePerKey
     /\ \A i \in 1..Len(Pairs) :
          fs[UnderBase(Pairs[i].key)] = Expect(Pairs[i].val)

\* C1 (amended): after a successful run on a valid manifest each key produced
\* one write, and every key whose destination os.path.join(base, k) is neither
\* the manifest nor the script and is not the destination of a later key has
\* a file there holding exactly the bytes its value encodes.
C1_Amended ==
  (pc = "done" /\ ValidManifest) =>
     /\ OneWritePerKey
     /\ \A i \in 1..Len(Pairs) :
          LET p == DestOf(Pairs[i].key) IN
          (/\ p \notin {ManifestPath, ScriptPath}
           /\ \A j \in (i + 1)..Len(Pairs) : DestOf(Pairs[j].key) # p)
            => fs[p] = Expect(Pairs[i].val)

\* C1 witness: a successful run wrote U+00E9 over the a.txt that was there.
C1_Witness ==
  /\ pc = "done"
  /\ ValidManifest
  /\ Len(Pairs) = 2
  /\ Pairs[2] = Member(KeyA, ValEAcute)
  /\ fs0[DestOf(KeyA)] = TextFile(<<111, 108, 100, 10>>)
  /\ fs[DestOf(KeyA)] = TextFile(<<195, 169>>)

\* C2: after a run that reached "Cleanup done" neither the manifest file nor
\* the script file exists.
C2_CleanedUp ==
  pc = "done" => ~Exists(fs, ManifestPath) /\ ~Exists(fs, ScriptPath)

\* C2 witness: a successful run whose manifest named both files as keys, so
\* that both were rewritten before being removed.
C2_Witness ==
  /\ pc = "done"
  /\ \E i \in 1..Len(written) : written[i].path = ManifestPath
  /\ \E i \in 1..Len(written) : written[i].path = ScriptPath
  /\ Exists(fs0, ManifestPath)
  /\ Exists(fs0, ScriptPath)

\* The place of a step in the script.
Rank(step) ==
  CASE step = "load" -> 1
    [] step = "write" -> 2
    [] step = "rm_manifest" -> 3
    [] step = "rm_script" -> 4
    [] OTHER -> 5

\* C3: the steps of a run happen in the order load, writes, delete manifest,
\* delete script, "Cleanup done": the manifest is deleted only when every
\* entry is written, the script only after the manifest, and the final line
\* is printed only after both deletions.
C3_Order ==
  /\ \A i, j \in 1..Len(trace) :
       i < j => /\ Rank(trace[i]) <= Rank(trace[j])
                /\ trace[j] # "write" => Rank(trace[i]) < Rank(trace[j])
  /\ (trace # <<>> => trace[1] = "load")
  /\ ("rm_manifest" \in Range(trace) \/ (Exists(fs0, ManifestPath) /\ ~Exists(fs, ManifestPath)))
       => files_b64.t = "object" /\ OneWritePerKey
  /\ ("rm_script" \in Range(trace) \/ (Exists(fs0, ScriptPath) /\ ~Exists(fs, ScriptPath)))
       => "rm_manifest" \in Range(trace) /\ ~Exists(fs, ManifestPath)
  /\ CleanupLine \in Range(out)
       => /\ "rm_manifest" \in Range(trace)
          /\ "rm_script" \in Range(trace)
          /\ ~Exists(fs, ManifestPath)
          /\ ~Exists(fs, ScriptPath)

\* C3 witness: a complete run of two writes and the three cleanup steps.
C3_Witness ==
  trace = <<"load", "write", "write", "rm_manifest", "rm_script", "print_done">>

----------------------------------------------------------------------------
NoCleanupReached ==
  /\ "rm_manifest" \notin Range(trace)
  /\ "rm_script" \notin Range(trace)
  /\ CleanupLine \notin Range(out)
  /\ Exists(fs, ManifestPath)
  /\ Exists(fs, ScriptPath)

C5_Original ==
  /\ (pc \notin {"idle", "load"} /\ ~Exists(fs0, ManifestPath)) =>
        /\ pc = "failed"
        /\ err = "FileNotFoundError"
        /\ files_b64 = NoDoc
        /\ written = <<>>
        /\ fs = fs0
        /\ Exists(fs, ScriptPath)
  /\ (prev = "done" /\ pc # "load") =>
        /\ pc = "failed"
        /\ err = "FileNotFoundError"
        /\ fs = fs0

\* C5 (amended): a run of the script that starts without a manifest fails
\* with the manifest's FileNotFoundError before any write and deletes
\* nothing, the script included; the invocation that follows a successful
\* run does not start at all, because the script file is gone: nothing is
\* looked up, written or deleted.
C5_Amended ==
  /\ (pc \notin {"idle", "load", "nolaunch"} /\ ~Exists(fs0, ManifestPath)) =>
        /\ pc = "failed"
        /\ err = "FileNotFoundError"
        /\ files_b64 = NoDoc
        /\ written = <<>>
        /\ out = <<>>
        /\ fs = fs0
        /\ Exists(fs, ScriptPath)
  /\ prev = "done" =>
        /\ pc = "nolaunch"
        /\ err = "CannotOpenScript"
        /\ trace = <<>>
        /\ written = <<>>
        /\ fs = fs0
        /\ ~Exists(fs, ManifestPath)
        /\ ~Exists(fs, ScriptPath)

\* C5 witness: the invocation after a successful run, with manifest and
\* script both gone.
C5_Witness ==
  /\ prev = "done"
  /\ pc = "nolaunch"
  /\ ~Exists(fs0, ManifestPath)

\* The manifest file holds JSON.
IsJson(file) == file.kind = "json" /\ file.doc.t # "invalid"

\* The manifest file holds a JSON object that maps every name to a string.
IsFlatStrMap(file) ==
  /\ IsJson(file)
  /\ file.doc.t = "object"
  /\ LET d == DictOf(file.doc.pairs, <<>>) IN
     \A i \in 1..Len(d) : d[i].val.t = "str"

Started == pc \notin {"idle", "nolaunch"}

\* C6 (as stated): when the manifest is not a flat string-to-string JSON
\* mapping, the run writes no file and reports none.
C6_Original ==
  (Started /\ Exists(fs0, ManifestPath) /\ ~IsFlatStrMap(fs0[ManifestPath])) =>
     /\ written = <<>>
     /\ out = <<>>

\* The first entry of the mapping whose value is not a string.
FirstNonStr(pairs) ==
  CHOOSE n \in 1..Len(pairs) :
    /\ pairs[n].val.t # "str"
    /\ \A m \in 1..(n - 1) : pairs[m].val.t = "str"

\* C6 (amended): a manifest that is not JSON fails the run with a
\* JSONDecodeError, and one that is JSON but no object with an
\* AttributeError, before any write; a JSON object holding a value that is
\* not a string is loaded, the entries before the first such value are
\* processed as usual, and the run fails with a TypeError at that entry, so
\* that entry and the later ones are never written and no cleanup step is
\* reached.
C6_Amended ==
  (Started /\ Exists(fs0, ManifestPath)) =>
     LET file == fs0[ManifestPath] IN
     /\ ~IsJson(file) =>
          /\ written = <<>> /\ out = <<>> /\ fs = fs0
          /\ pc \in {"load", "failed"}
          /\ pc = "failed" => err = "JSONDecodeError"
     /\ (IsJson(file) /\ file.doc.t # "object") =>
          /\ written = <<>> /\ out = <<>> /\ fs = fs0
          /\ pc \in {"load", "loop", "failed"}
          /\ pc = "failed" => err = "AttributeError"
     /\ (IsJson(file) /\ file.doc.t = "object" /\ ~IsFlatStrMap(file)) =>
          LET n == FirstNonStr(StartPairs) IN
          /\ Len(written) < n
          /\ pc # "load" => Pairs = StartPairs
          /\ (pc = "failed" /\ idx = n - 1) => err = "TypeError"
          /\ pc \in {"load", "loop", "print", "failed"}
          /\ "rm_manifest" \notin Range(trace)

\* C6 witness: a.txt was written and reported before the number that is
\* b.txt's value ended the run.
C6_Witness ==
  /\ pc = "failed"
  /\ err = "TypeError"
  /\ StartPairs = <<Member(KeyA, ValX), Member(KeyB, ValNumber)>>
  /\ Len(written) = 1
  /\ fs[DestOf(KeyA)] = TextFile(<<120>>)
  /\ Len(out) = 1

----------------------------------------------------------------------------
\* The line that reports the write of a manifest entry.
LineOf(pair) ==
  [kind |-> "Written", fname |-> pair.key,
   lines |-> NlCount(Utf8Decode(B64Decode(pair.val).bytes).text)]

\* One line per completed write but the last n, in order.
LinesOfWrites(n) == [j \in 1..(Len(written) - n) |-> LineOf(Pairs[j])]

\* C7: standard output is, after a successful run, one "Written" line per
\* manifest entry in the manifest's order followed by "Cleanup done", and
\* after a failed run exactly the lines of the entries written before the
\* failure; no entry is reported before its file is written.
C7_Output ==
  /\ pc = "done" =>
       /\ OneWritePerKey
       /\ out = [j \in 1..Len(Pairs) |-> LineOf(Pairs[j])] \o <<CleanupLine>>
  /\ pc = "failed" => out = LinesOfWrites(0)
  /\ pc = "nolaunch" => out = <<>>
  /\ pc \in {"loop", "rm_script", "print_done"} => out = LinesOfWrites(0)
  /\ pc = "print" => out = LinesOfWrites(1)
  /\ \A j \in 1..Len(out) :
       out[j].kind = "Written" =>
         /\ j <= Len(written)
         /\ written[j].key = out[j].fname

\* C7 witness: a failed run that had reported the first of its two entries;
\* the second named a file in a directory that does not exist.
C7_Witness ==
  /\ pc = "failed"
  /\ Len(Pairs) = 2
  /\ Pairs[2].key = KeySub
  /\ out = <<WrittenLine(KeyDotA, 2)>>

\* C8: the count printed for a file is the number of line feeds of its
\* content: 0 without any, 2 for "a\nb\nc", 3 for "a\nb\nc\n".
C8_Count ==
  \A j \in 1..Len(out) :
    out[j].kind = "Written" =>
      /\ j <= Len(written)
      /\ out[j].lines = NlCount(written[j].text)
      /\ 10 \notin Range(written[j].text) => out[j].lines = 0
      /\ written[j].text = <<97, 10, 98, 10, 99>> => out[j].lines = 2
      /\ written[j].text = <<97, 10, 98, 10, 99, 10>> => out[j].lines = 3

\* C8 witness: "a\nb\nc" reported with 2 and "a\nb\nc\n" with 3.
C8_Witness ==
  /\ Len(out) >= 2
  /\ written[1].text = <<97, 10, 98, 10, 99>>
  /\ out[1].lines = 2
  /\ written[2].text = <<97, 10, 98, 10, 99, 10>>
  /\ out[2].lines = 3

\* C9: when a deletion fails the run ends without "Cleanup done" and with
\* every entry written, each with the text its value encodes; the failed
\* deletion of the manifest leaves the script (and the manifest) in place,
\* and the deletion of the script fails only once the manifest is gone.
C9_Cleanup ==
  CleanupFailed =>
    /\ CleanupLine \notin Range(out)
    /\ "rm_script" \notin Range(trace)
    /\ OneWritePerKey
    /\ \A j \in 1..Len(Pairs) :
         /\ written[j].path = DestOf(Pairs[j].key)
         /\ Utf8Encode(written[j].text) = B64Decode(Pairs[j].val).bytes
    /\ \A p \in FilePaths \ {ManifestPath} : fs[p] = AfterWrites(p)
    /\ "rm_manifest" \notin Range(trace) =>
         /\ Exists(fs, ScriptPath)
         /\ Exists(fs, ManifestPath)
         /\ fs[ManifestPath] = AfterWrites(ManifestPath)
    /\ "rm_manifest" \in Range(trace) => ~Exists(fs, ManifestPath)

\* C9 witness: the deletion of the script failed after two entries were
\* written and the manifest was deleted.
C9_Witness ==
  /\ CleanupFailed
  /\ trace = <<"load", "write", "write", "rm_manifest">>
  /\ Exists(fs, ScriptPath)

\* The destinations of the keys of the manifest the run loaded.
DestPaths == {DestOf(Pairs[j].key) : j \in 1..Len(Pairs)}

\* C10: a run changes no path but the destinations of its manifest's keys,
\* the manifest and the script; it deletes nothing but the manifest and the
\* script, and those only in its cleanup steps.
C10_Frame ==
  \A p \in FilePaths :
    /\ fs[p] # fs0[p] => p \in DestPaths \cup {ManifestPath, ScriptPath}
    /\ (fs[p] # fs0[p] /\ p \notin DestPaths) => "rm_manifest" \in Range(trace)
    /\ (Exists(fs0, p) /\ ~Exists(fs, p)) =>
         /\ p \in {ManifestPath, ScriptPath}
         /\ "rm_manifest" \in Range(trace)
         /\ idx = Len(Pairs)
    /\ p = OtherPath => fs[p] = fs0[p]

\* C10 witness: a run that failed in its second entry after it rewrote
\* a.txt, with everything else as it was.
C10_Witness ==
  /\ EntryFailed
  /\ idx = 1
  /\ fs[DestOf(KeyA)] # fs0[DestOf(KeyA)]
  /\ \A p \in FilePaths \ {DestOf(KeyA)} : fs[p] = fs0[p]

====
